---------------------------- MODULE Spec2Model ----------------------------
(***************************************************************************)
(* Model of the LoRA training-dataset generator:                           *)
(*   - the analyze_style command (backend selection, pre-flight checks,    *)
(*     fallback) of docs/plans/2026-01-16-offline-mode-implementation.md,  *)
(*   - the permutation parser and the batch validator (utils/validation),  *)
(*   - the project store's batch operations (stores/project.ts),           *)
(*   - the dataset validator (validateDatasetSpecification),               *)
(*   - the project store's analyzeStyle and loadProject as the upload view *)
(*     calls them (stores/project.ts, views/UploadView.vue).               *)
(***************************************************************************)
EXTENDS Integers, Sequences, FiniteSets, TLC

VARIABLES
    \* ---- analyze_style command (Rust backend) ----
    settingsFile,   \* persisted settings: [state: "absent"|"ok", value: AppSettings]
    apiKeySet,      \* CLAUDE_API_KEY or ANTHROPIC_API_KEY is in the environment
    pc,             \* position of the one in-flight analyze_style invocation
    settings,       \* the invocation's local `settings`
    use_api,        \* the invocation's local `use_api`
    calls,          \* collaborators called by the invocation, in order, with outcomes
    remoteErr,      \* error of the failed claude::analyze_style call, "none" otherwise
    result,         \* what the invocation returned
    \* ---- BatchCard: a batch being edited and its validation ----
    batch,          \* the card's localBatch (prompt and priority)
    expectedSrefCode, \* the card's srefCode prop, validateBatch's second argument
    validation,     \* the card's computed validation: validateBatch(batch, srefCode)
    edits,          \* the number of pieces typed into the prompt so far
    recomputed,     \* history: `validation` was evaluated again, its inputs unchanged
    \* ---- project store and BatchValidator ----
    specification,  \* the store's specification (present = FALSE stands for null)
    isDirty,        \* the store's isDirty flag
    lastOp,         \* history: the last store operation called and its index
    opCount,        \* history: the number of store operations called so far
    docValidation,  \* BatchValidator's computed validateDatasetSpecification(...)
    \* ---- project store: analyzeStyle and loadProject ----
    imagePaths,     \* the store's imagePaths
    srefCode,       \* the store's srefCode
    currentStep,    \* the store's currentStep
    isLoading,      \* the store's isLoading flag
    error,          \* the store's error (Null or a message)
    statusMessage,  \* the store's statusMessage (Null or a message)
    lastModeUsed,   \* the store's lastModeUsed (Null or a mode)
    lastFallbackUsed, \* the store's lastFallbackUsed
    runs,           \* the analyzeStyle and loadProject invocations started so far
    timers          \* pending `setTimeout(() => statusMessage = null, 1000)` callbacks

orchVars == <<settingsFile, apiKeySet, pc, settings, use_api, calls, remoteErr, result>>
validVars == <<batch, expectedSrefCode, validation, edits, recomputed>>
projectVars == <<specification, isDirty, lastOp, opCount, docValidation>>
asyncVars == <<imagePaths, srefCode, currentStep, isLoading, error, statusMessage,
               lastModeUsed, lastFallbackUsed, runs, timers>>
vars == <<settingsFile, apiKeySet, pc, settings, use_api, calls, remoteErr, result,
          batch, expectedSrefCode, validation, edits, recomputed,
          specification, isDirty, lastOp, opCount, docValidation,
          imagePaths, srefCode, currentStep, isLoading, error, statusMessage,
          lastModeUsed, lastFallbackUsed, runs, timers>>

(***************************************************************************)
(* Settings                                                                *)
(***************************************************************************)
AnalysisMode == {"CloudAPI", "Offline", "Auto"}

ModelVariant == {"Qwen2VL2B", "Qwen2VL7B", "Qwen2VL72B"}

AppSettings ==
    [analysis_mode : AnalysisMode,
     offline_model_variant : ModelVariant,
     auto_fallback : BOOLEAN]

DefaultSettings ==
    [analysis_mode |-> "Auto",
     offline_model_variant |-> "Qwen2VL2B",
     auto_fallback |-> TRUE]

\* load_settings().unwrap_or_default(): the defaults when no file exists (an
\* unreadable file gives the defaults too, through unwrap_or_default).
load_settings(file) ==
    IF file.state = "absent" THEN DefaultSettings ELSE file.value

(***************************************************************************)
(* Environment: what the collaborators of analyze_style can answer.        *)
(***************************************************************************)
RemoteErrors == {"network", "auth", "rateLimit"}

Payloads == {"specA", "specB"}

\* available memory, in GB, as get_available_memory_gb can report it
MemoryLevels == {2, 4, 8, 12, 64, 80}

\* the variants of ModelStatus; analyze_style accepts Ready alone
ModelStatus == {"NotDownloaded", "Downloading", "Ready", "Error"}

NoResult ==
    [kind |-> "none", data |-> "", mode_used |-> "", fallback_used |-> FALSE,
     prefix |-> "", cause |-> ""]

Ok(data, mode, fb) ==
    [kind |-> "ok", data |-> data, mode_used |-> mode, fallback_used |-> fb,
     prefix |-> "", cause |-> ""]

\* Err(format!("<prefix>: {}", cause))
Err(prefix, cause) ==
    [kind |-> "err", data |-> "", mode_used |-> "", fallback_used |-> FALSE,
     prefix |-> prefix, cause |-> cause]

\* one collaborator call: its name, its outcome and, when it succeeded with a
\* payload, that payload
Call(op, out, data) == [op |-> op, out |-> out, data |-> data]

(***************************************************************************)
(* analyze_style: "Determine which mode to use"                            *)
(***************************************************************************)
UseApi(s, key) ==
    CASE s.analysis_mode = "CloudAPI" -> key
      [] s.analysis_mode = "Offline"  -> FALSE
      [] s.analysis_mode = "Auto"     -> key

\* check_system_requirements: GB required by the variant
RequiredGb(variant) ==
    CASE variant = "Qwen2VL2B"  -> 4
      [] variant = "Qwen2VL7B"  -> 12
      [] variant = "Qwen2VL72B" -> 80

\* mutant: the flag is never set
FallbackUsed_Never(tried_api) == FALSE

\* true if we tried API first
FallbackUsed(tried_api) == tried_api

\* mutant: the run reads the persisted settings again when it decides
FallsThrough_Reread(s) == load_settings(settingsFile).auto_fallback

\* mutant: the guard on auto_fallback is dropped
FallsThrough_Always(s) == TRUE

\* the arm `Err(e) if settings.auto_fallback` of the match on the remote result
FallsThrough(s) == s.auto_fallback

\* mutant: a remote success is tagged as a fallback
RemoteOk_Flagged(p) == Ok(p, "cloud", TRUE)

\* the Ok arm of the match on the remote result
RemoteOk(p) == Ok(p, "cloud", FALSE)

\* mutant: a local success is always tagged as a fallback
LocalOk_AlwaysFallback(p, tried_api) == Ok(p, "offline", TRUE)

\* the Ok arm of the match on the local result
LocalOk(p, tried_api) == Ok(p, "offline", FallbackUsed(tried_api))

\* mutant: a failed check is evaluated again
PreflightNext_Retry(passed, next) == IF passed THEN next ELSE "sysreq"

\* mutant: a passed check goes straight to inference
PreflightNext_Skip(passed, next) == IF passed THEN "infer" ELSE "failed"

\* mutant: the `?` is missing, the check's error is ignored
PreflightNext_Ignored(passed, next) == next

\* the `?` after a pre-flight check: go on when it passed, return the error otherwise
PreflightNext(passed, next) == IF passed THEN next ELSE "failed"

\* mutant: the local error is reported under the remote backend's prefix
OfflineError_AsRemote(e) == Err("Claude API error", e)

\* Err(format!("Offline analysis error: {}", e))
OfflineError(e) == Err("Offline analysis error", e)

\* Err(format!("Claude API error: {}", e))
RemoteError(e) == Err("Claude API error", e)

(***************************************************************************)
(* Permutation parser and batch validator (utils/validation)              *)
(*                                                                         *)
(* A prompt is a sequence of characters. Prompts are typed piece by piece:  *)
(* each piece is one of Pieces, at most MaxPieces of them.                 *)
(***************************************************************************)
MaxPieces == 3

\* the template addBatch creates: 5 subjects with 8 modifiers
SegDefaultBody ==
    <<"{", "a", ",", " ", "b", ",", " ", "c", ",", " ", "d", ",", " ", "e", "}", " ", "w", "i", "t", "h", " ", "{", "a", ",", " ", "b", ",", " ", "c", ",", " ", "d", ",", " ", "e", ",", " ", "f", ",", " ", "g", ",", " ", "h", "}">>

\* a group of three options
SegGroup3 ==
    <<"{", "a", ",", "b", ",", "c", "}">>

\* text followed by a group of two options
SegWithGroup2 ==
    <<" ", "w", "i", "t", "h", " ", "{", "x", ",", "y", "}">>

\* the marker --sref 1
SegSref ==
    <<" ", "-", "-", "s", "r", "e", "f", " ", "1">>

Pieces ==
    {SegDefaultBody, SegGroup3, SegWithGroup2, SegSref,
     <<"{">>, <<"}">>, <<",">>, <<" ">>, <<"a">>}

\* the values a batch's priority can hold: the three of the schema, and one
\* that only unvalidated JSON can carry
PriorityValues == {"high", "medium", "low", "urgent"}

\* the style codes validateBatch is called with; <<>> is the falsy (absent) one
ExpectedCodes == {<<>>, <<"1">>, <<"2">>}

Whitespace == {" "}

Digits == {"0", "1", "2", "3", "4", "5", "6", "7", "8", "9"}

\* s.slice(from - 1, to) in 1-based inclusive positions
Slice(s, from, to) == SubSeq(s, from, to)

\* the position of the first "}" at or after i, 0 when there is none
NextClose(s, i) ==
    LET ks == {k \in i..Len(s) : s[k] = "}"}
    IN IF ks = {} THEN 0 ELSE CHOOSE k \in ks : \A j \in ks : k <= j

\* prompt.match(/\{[^}]+\}/g): the matches, leftmost first, not overlapping; a
\* match starts at a "{", takes one or more characters other than "}" and ends
\* at the next "}"
RECURSIVE MatchBlocksFrom(_, _)
MatchBlocksFrom(s, i) ==
    IF i > Len(s) THEN <<>>
    ELSE IF s[i] # "{" THEN MatchBlocksFrom(s, i + 1)
    ELSE LET k == NextClose(s, i + 1)
         IN IF k > i + 1
              THEN <<Slice(s, i, k)>> \o MatchBlocksFrom(s, k + 1)
              ELSE MatchBlocksFrom(s, i + 1)

MatchBlocks(s) == MatchBlocksFrom(s, 1)

\* s.trim()
Trim(s) ==
    LET ns == {k \in 1..Len(s) : s[k] \notin Whitespace}
    IN IF ns = {} THEN <<>>
       ELSE Slice(s, CHOOSE k \in ns : \A j \in ns : k <= j,
                     CHOOSE k \in ns : \A j \in ns : k >= j)

\* s.split(','): the pieces between the commas, empty ones included
RECURSIVE SplitFrom(_, _, _)
SplitFrom(s, start, i) ==
    IF i > Len(s) THEN <<Slice(s, start, Len(s))>>
    ELSE IF s[i] = "," THEN <<Slice(s, start, i - 1)>> \o SplitFrom(s, i + 1, i + 1)
    ELSE SplitFrom(s, start, i + 1)

Split(s) == SplitFrom(s, 1, 1)

\* block.slice(1, -1).split(',').map(s => s.trim()).filter(s => s.length > 0)
BlockOptions(block) ==
    LET parts == Split(Slice(block, 2, Len(block) - 1))
        trimmed == [k \in 1..Len(parts) |-> Trim(parts[k])]
    IN SelectSeq(trimmed, LAMBDA o : Len(o) > 0)

RECURSIVE ProductOfOptions(_, _)
ProductOfOptions(blocks, k) ==
    IF k > Len(blocks) THEN 1
    ELSE Len(BlockOptions(blocks[k])) * ProductOfOptions(blocks, k + 1)

calculatePermutationCount(prompt) ==
    LET permutationBlocks == MatchBlocks(prompt)
    IN IF Len(permutationBlocks) = 0 THEN 1
       ELSE ProductOfOptions(permutationBlocks, 1)

\* (prompt.match(/c/g) || []).length
CountChar(s, c) == Cardinality({k \in 1..Len(s) : s[k] = c})

Includes(s, c) == \E k \in 1..Len(s) : s[k] = c

\* the test on one block: content is not blank and holds a comma
BlockHasContent(block) ==
    LET content == Trim(Slice(block, 2, Len(block) - 1))
    IN ~(Len(content) = 0 \/ ~Includes(content, ","))

hasValidPermutationSyntax(prompt) ==
    LET openBraces == CountChar(prompt, "{")
        closeBraces == CountChar(prompt, "}")
        blocks == MatchBlocks(prompt)
    IN IF openBraces # closeBraces THEN FALSE
       ELSE \A k \in 1..Len(blocks) : BlockHasContent(blocks[k])

\* the end of the run of characters of set cs that starts at i (i - 1 if empty)
RECURSIVE RunEnd(_, _, _)
RunEnd(s, i, cs) ==
    IF i <= Len(s) /\ s[i] \in cs THEN RunEnd(s, i + 1, cs) ELSE i - 1

SrefWord == <<"-", "-", "s", "r", "e", "f">>

\* /--sref\s+(\d+)/ matched at position i: the digits captured, <<>> if no match
SrefMatchAt(s, i) ==
    IF i + 5 <= Len(s) /\ Slice(s, i, i + 5) = SrefWord
      THEN LET w == RunEnd(s, i + 6, Whitespace)
               d == RunEnd(s, w + 1, Digits)
           IN IF w >= i + 6 /\ d >= w + 1 THEN Slice(s, w + 1, d) ELSE <<>>
      ELSE <<>>

SrefMatches(s) == {i \in 1..Len(s) : s[i] = "-" /\ SrefMatchAt(s, i) # <<>>}

\* mutant: only a marker that ends the prompt counts
hasSrefCode_Trailing(prompt) ==
    \E i \in SrefMatches(prompt) :
        RunEnd(prompt, RunEnd(prompt, i + 6, Whitespace) + 1, Digits) = Len(prompt)

hasSrefCode(prompt) == SrefMatches(prompt) # {}

\* the first match's group 1; [found |-> FALSE] stands for null
extractSrefCode(prompt) ==
    LET ms == SrefMatches(prompt)
    IN IF ms = {} THEN [found |-> FALSE, code |-> <<>>]
       ELSE [found |-> TRUE,
             code |-> SrefMatchAt(prompt, CHOOSE i \in ms : \A j \in ms : i <= j)]

\* the messages validateBatch pushes
CountError(n) == [kind |-> "count", count |-> n, expected |-> <<>>, found |-> <<>>]

SyntaxError == [kind |-> "syntax", count |-> 0, expected |-> <<>>, found |-> <<>>]

MissingSrefError == [kind |-> "sref_missing", count |-> 0, expected |-> <<>>, found |-> <<>>]

SrefMismatchError(expected, found) ==
    [kind |-> "sref_mismatch", count |-> 0, expected |-> expected, found |-> found]

PriorityError == [kind |-> "priority", count |-> 0, expected |-> <<>>, found |-> <<>>]

LongPromptWarning == [kind |-> "long_prompt", keywords |-> <<>>]

StyleKeywordsWarning(found) == [kind |-> "style_keywords", keywords |-> found]

\* the per-batch target of the image-count check
\* mutant: the per-batch target is off by one
TargetCount_Off == 40 + 1

TargetCount == 40

\* the prompt length above which the long-prompt warning is given
LongPrompt == 200

\* mutant: "low" is missing from the accepted priorities
Priorities_NoLow == {"high", "medium"}

Priorities == {"high", "medium", "low"}

\* the `!hasValidSyntax && batch.prompt.includes('{')` condition
ReportsSyntaxError(hasValidSyntax, prompt) == ~hasValidSyntax /\ Includes(prompt, "{")

styleKeywords ==
    << <<"r","e","t","r","o">>, <<"v","i","n","t","a","g","e">>, <<"7","0","s">>,
       <<"8","0","s">>, <<"p","o","s","t","e","r">>,
       <<"i","l","l","u","s","t","r","a","t","i","o","n">>,
       <<"w","a","t","e","r","c","o","l","o","r">>,
       <<"s","t","y","l","i","z","e","d">> >>

\* c.toLowerCase() for one character
LowerChar(c) ==
    CASE c = "R" -> "r" [] c = "V" -> "v" [] c = "P" -> "p" [] c = "I" -> "i"
      [] c = "W" -> "w" [] c = "S" -> "s" [] c = "A" -> "a"
      [] OTHER -> c

toLowerCase(s) == [k \in 1..Len(s) |-> LowerChar(s[k])]

\* s.includes(sub)
IncludesSeq(s, sub) ==
    \E i \in 1..(Len(s) - Len(sub) + 1) :
        \A j \in 1..Len(sub) : s[i + j - 1] = sub[j]

\* a batch with an empty prompt
NoBatch == [prompt |-> <<>>, priority |-> "medium"]

\* mutant: the declared image_count is compared with the expansion count
validateBatch_DeclaredCount(b, expected) ==
    LET calculatedCount == calculatePermutationCount(b.prompt)
        hasValidSyntax == hasValidPermutationSyntax(b.prompt)
        hasSref == hasSrefCode(b.prompt)
        batchSref == extractSrefCode(b.prompt).code
        e1 == IF calculatedCount # TargetCount
                 \/ ("image_count" \in DOMAIN b /\ b.image_count # calculatedCount)
                THEN <<CountError(calculatedCount)>> ELSE <<>>
        e2 == IF ReportsSyntaxError(hasValidSyntax, b.prompt) THEN <<SyntaxError>> ELSE <<>>
        e3 == IF ~hasSref THEN <<MissingSrefError>>
              ELSE IF expected # <<>> /\ batchSref # expected
                     THEN <<SrefMismatchError(expected, batchSref)>>
                     ELSE <<>>
        e4 == IF b.priority \notin Priorities THEN <<PriorityError>> ELSE <<>>
        errors == e1 \o e2 \o e3 \o e4
        w1 == IF Len(b.prompt) > LongPrompt THEN <<LongPromptWarning>> ELSE <<>>
        promptLower == toLowerCase(b.prompt)
        foundKeywords == SelectSeq(styleKeywords, LAMBDA kw : IncludesSeq(promptLower, kw))
        w2 == IF Len(foundKeywords) > 0 THEN <<StyleKeywordsWarning(foundKeywords)>> ELSE <<>>
    IN [isValid |-> Len(errors) = 0,
        errors |-> errors,
        warnings |-> w1 \o w2,
        calculatedCount |-> calculatedCount,
        hasSrefCode |-> hasSref,
        hasValidSyntax |-> hasValidSyntax]

validateBatch(b, expected) ==
    LET calculatedCount == calculatePermutationCount(b.prompt)
        hasValidSyntax == hasValidPermutationSyntax(b.prompt)
        hasSref == hasSrefCode(b.prompt)
        batchSref == extractSrefCode(b.prompt).code
        e1 == IF calculatedCount # TargetCount THEN <<CountError(calculatedCount)>> ELSE <<>>
        e2 == IF ReportsSyntaxError(hasValidSyntax, b.prompt) THEN <<SyntaxError>> ELSE <<>>
        e3 == IF ~hasSref THEN <<MissingSrefError>>
              ELSE IF expected # <<>> /\ batchSref # expected
                     THEN <<SrefMismatchError(expected, batchSref)>>
                     ELSE <<>>
        e4 == IF b.priority \notin Priorities THEN <<PriorityError>> ELSE <<>>
        errors == e1 \o e2 \o e3 \o e4
        w1 == IF Len(b.prompt) > LongPrompt THEN <<LongPromptWarning>> ELSE <<>>
        promptLower == toLowerCase(b.prompt)
        foundKeywords == SelectSeq(styleKeywords, LAMBDA kw : IncludesSeq(promptLower, kw))
        w2 == IF Len(foundKeywords) > 0 THEN <<StyleKeywordsWarning(foundKeywords)>> ELSE <<>>
    IN [isValid |-> Len(errors) = 0,
        errors |-> errors,
        warnings |-> w1 \o w2,
        calculatedCount |-> calculatedCount,
        hasSrefCode |-> hasSref,
        hasValidSyntax |-> hasValidSyntax]

(***************************************************************************)
(* Commands                                                                *)
(***************************************************************************)
\* update_settings: save_settings(&settings)
UpdateSettings ==
    /\ \E s \in AppSettings : settingsFile' = [state |-> "ok", value |-> s]
    /\ UNCHANGED <<apiKeySet, pc, settings, use_api, calls, remoteErr, result>>
    /\ UNCHANGED <<validVars, projectVars, asyncVars>>

\* analyze_style is invoked: settings are loaded and use_api is computed
Invoke ==
    /\ pc = "idle"
    /\ LET s == load_settings(settingsFile)
           u == UseApi(s, apiKeySet)
       IN /\ settings' = s
          /\ use_api' = u
          /\ pc' = IF u THEN "encode" ELSE "sysreq"
    /\ calls' = <<Call("load_settings", "ok", "")>>
    /\ remoteErr' = "none"
    /\ result' = NoResult
    /\ UNCHANGED <<settingsFile, apiKeySet>>
    /\ UNCHANGED <<validVars, projectVars, asyncVars>>

\* read_and_encode_image / get_mime_type over all paths, `?` on the first failure
EncodeImages ==
    /\ pc = "encode"
    /\ \E out \in {"ok", "Failed to read image", "Invalid image format"} :
         /\ calls' = Append(calls, Call("encode_images", IF out = "ok" THEN "ok" ELSE "err", ""))
         /\ IF out = "ok"
              THEN /\ pc' = "remote"
                   /\ result' = result
              ELSE /\ pc' = "failed"
                   /\ result' = Err(out, "io")
    /\ UNCHANGED <<settingsFile, apiKeySet, settings, use_api, remoteErr>>
    /\ UNCHANGED <<validVars, projectVars, asyncVars>>

\* match claude::analyze_style(image_data, &sref_code).await
RemoteAttempt ==
    /\ pc = "remote"
    /\ \/ \E p \in Payloads :
            /\ calls' = Append(calls, Call("claude::analyze_style", "ok", p))
            /\ result' = RemoteOk(p)
            /\ pc' = "done"
            /\ remoteErr' = remoteErr
       \/ \E e \in RemoteErrors :
            /\ calls' = Append(calls, Call("claude::analyze_style", "err", ""))
            /\ remoteErr' = e
            /\ IF FallsThrough(settings)
                 THEN /\ pc' = "sysreq"
                      /\ result' = result
                 ELSE /\ pc' = "failed"
                      /\ result' = RemoteError(e)
    /\ UNCHANGED <<settingsFile, apiKeySet, settings, use_api>>
    /\ UNCHANGED <<validVars, projectVars, asyncVars>>

\* offline_analyzer::analyze_style step 1: check_system_requirements(settings)?
CheckSystemRequirements ==
    /\ pc = "sysreq"
    /\ \E available \in MemoryLevels :
         LET passed == ~(available < RequiredGb(settings.offline_model_variant))
         IN /\ calls' = Append(calls, Call("check_system_requirements",
                                           IF passed THEN "ok" ELSE "err", ""))
            /\ pc' = PreflightNext(passed, "status")
            /\ result' = IF passed THEN result ELSE OfflineError("InsufficientMemory")
    /\ UNCHANGED <<settingsFile, apiKeySet, settings, use_api, remoteErr>>
    /\ UNCHANGED <<validVars, projectVars, asyncVars>>

\* step 2: check_model_status(...).map_err(ModelLoadError)?; not Ready -> ModelNotFound
CheckModelStatus ==
    /\ pc = "status"
    /\ \/ /\ calls' = Append(calls, Call("check_model_status", "err", ""))
          /\ pc' = "failed"
          /\ result' = OfflineError("ModelLoadError")
       \/ \E st \in ModelStatus :
            /\ calls' = Append(calls, Call("check_model_status", st, ""))
            /\ pc' = PreflightNext(st = "Ready", "path")
            /\ result' = IF st = "Ready" THEN result ELSE OfflineError("ModelNotFound")
    /\ UNCHANGED <<settingsFile, apiKeySet, settings, use_api, remoteErr>>
    /\ UNCHANGED <<validVars, projectVars, asyncVars>>

\* A step of the local attempt that either fails with `cause` or moves on to `next`.
LocalStep(at, op, cause, next) ==
    /\ pc = at
    /\ \/ /\ calls' = Append(calls, Call(op, "ok", ""))
          /\ pc' = next
          /\ result' = result
       \/ /\ calls' = Append(calls, Call(op, "err", ""))
          /\ pc' = "failed"
          /\ result' = OfflineError(cause)
    /\ UNCHANGED <<settingsFile, apiKeySet, settings, use_api, remoteErr>>
    /\ UNCHANGED <<validVars, projectVars, asyncVars>>

\* step 3: get_model_path(...).map_err(ModelLoadError)?
GetModelPath == LocalStep("path", "get_model_path", "ModelLoadError", "images")

\* step 4: load_images(&image_paths)?
LoadImages == LocalStep("images", "load_images", "ImageProcessingError", "load")

\* step 6a: Qwen2VLInference::new(...).await.map_err(ModelLoadError)?
LoadModel == LocalStep("load", "Qwen2VLInference::new", "ModelLoadError", "infer")

\* step 6b: inference.analyze_images(images, &prompt).map_err(InferenceFailed)?
\* and the Ok arm of the match in the command
AnalyzeImages ==
    /\ pc = "infer"
    /\ \/ \E p \in Payloads :
            /\ calls' = Append(calls, Call("analyze_images", "ok", p))
            /\ pc' = "done"
            /\ result' = LocalOk(p, use_api)
       \/ /\ calls' = Append(calls, Call("analyze_images", "err", ""))
          /\ pc' = "failed"
          /\ result' = OfflineError("InferenceFailed")
    /\ UNCHANGED <<settingsFile, apiKeySet, settings, use_api, remoteErr>>
    /\ UNCHANGED <<validVars, projectVars, asyncVars>>

\* the command has returned; the next invocation may start
Return ==
    /\ pc \in {"done", "failed"}
    /\ pc' = "idle"
    /\ settings' = DefaultSettings
    /\ use_api' = FALSE
    /\ calls' = <<>>
    /\ remoteErr' = "none"
    /\ result' = NoResult
    /\ UNCHANGED <<settingsFile, apiKeySet>>
    /\ UNCHANGED <<validVars, projectVars, asyncVars>>


\* `specification` of a store that holds none: ref<DatasetSpecification | null>(null)
NoSpecification ==
    [present |-> FALSE, sref_code |-> <<>>, permutation_batches |-> <<>>,
     optimal_subject_distribution |-> <<>>]

NoOp == [op |-> "none", index |-> 0]

\* BatchValidator has computed nothing
NotValidated == [kind |-> "none", isValid |-> FALSE, errors |-> <<>>, warnings |-> <<>>]

\* null, and a string, for the refs typed `string | null`
Null == [null |-> TRUE, text |-> <<>>]

Text(t) == [null |-> FALSE, text |-> t]

\* the store's remaining refs as constructed, no invocation started
NothingLoading ==
    /\ imagePaths = <<>>
    /\ srefCode = <<>>
    /\ currentStep = "upload"
    /\ isLoading = FALSE
    /\ error = Null
    /\ statusMessage = Null
    /\ lastModeUsed = Null
    /\ lastFallbackUsed = FALSE
    /\ runs = <<>>
    /\ timers = 0

\* the store as constructed, nothing validated
NoProject ==
    /\ specification = NoSpecification
    /\ isDirty = FALSE
    /\ lastOp = NoOp
    /\ opCount = 0
    /\ docValidation = NotValidated

InitOrch ==
    /\ settingsFile = [state |-> "absent", value |-> DefaultSettings]
    /\ apiKeySet \in BOOLEAN
    /\ pc = "idle"
    /\ settings = DefaultSettings
    /\ use_api = FALSE
    /\ calls = <<>>
    /\ remoteErr = "none"
    /\ result = NoResult
    /\ batch = NoBatch
    /\ expectedSrefCode = <<>>
    /\ validation = validateBatch(NoBatch, <<>>)
    /\ edits = 0
    /\ recomputed = FALSE
    /\ NothingLoading
    /\ NoProject

NextOrch ==
    \/ UpdateSettings
    \/ Invoke
    \/ EncodeImages
    \/ RemoteAttempt
    \/ CheckSystemRequirements
    \/ CheckModelStatus
    \/ GetModelPath
    \/ LoadImages
    \/ LoadModel
    \/ AnalyzeImages
    \/ Return

SpecOrch == InitOrch /\ [][NextOrch]_vars

(***************************************************************************)
(* BatchCard: the prompt field is edited, validation is recomputed.        *)
(***************************************************************************)
\* const validation = computed(() => validateBatch(localBatch.value, props.srefCode))
\* mutant: a result that depends on the call before it, as a shared regular
\* expression with the g flag would make it
Revalidated_Stateful(b) ==
    [validateBatch(b, expectedSrefCode) EXCEPT
        !.hasSrefCode = @ /\ ~validation.hasSrefCode]

Revalidated(b) == validateBatch(b, expectedSrefCode)

\* the computed is evaluated again for the same localBatch and srefCode
Revalidate ==
    /\ validation' = Revalidated(batch)
    /\ recomputed' = TRUE
    /\ UNCHANGED <<batch, expectedSrefCode, edits>>
    /\ UNCHANGED <<orchVars, projectVars, asyncVars>>

\* the user types one more piece at the end of the prompt
TypePiece ==
    /\ edits < MaxPieces
    /\ \E piece \in Pieces :
         /\ batch' = [batch EXCEPT !.prompt = batch.prompt \o piece]
         /\ validation' = Revalidated(batch')
    /\ edits' = edits + 1
    /\ recomputed' = FALSE
    /\ UNCHANGED expectedSrefCode
    /\ UNCHANGED <<orchVars, projectVars, asyncVars>>

InitValid ==
    /\ settingsFile = [state |-> "absent", value |-> DefaultSettings]
    /\ apiKeySet = FALSE
    /\ pc = "idle"
    /\ settings = DefaultSettings
    /\ use_api = FALSE
    /\ calls = <<>>
    /\ remoteErr = "none"
    /\ result = NoResult
    /\ \E p \in PriorityValues : batch = [prompt |-> <<>>, priority |-> p]
    /\ expectedSrefCode \in ExpectedCodes
    /\ validation = validateBatch(batch, expectedSrefCode)
    /\ edits = 0
    /\ recomputed = FALSE
    /\ NothingLoading
    /\ NoProject

NextValid == TypePiece \/ Revalidate

SpecValid == InitValid /\ [][NextValid]_vars

(***************************************************************************)
(* The project store's batch operations (stores/project.ts) as BatchesView *)
(* calls them                                                              *)
(***************************************************************************)
\* the number of store operations explored from a loaded specification
MaxOps == 4

\* mutant: a template of three options
DefaultTemplate_Three == SegGroup3 \o <<" ", "-", "-", "s", "r", "e", "f", " ">>

\* addBatch's prompt up to the style code:
\* "{subject1, ..., subject5} with {modifier1, ..., modifier8} --sref "
DefaultTemplate ==
    <<"{","s","u","b","j","e","c","t","1",","," ","s","u","b","j","e","c",
      "t","2",","," ","s","u","b","j","e","c","t","3",","," ","s","u","b",
      "j","e","c","t","4",","," ","s","u","b","j","e","c","t","5","}"," ",
      "w","i","t","h"," ","{","m","o","d","i","f","i","e","r","1",","," ",
      "m","o","d","i","f","i","e","r","2",","," ","m","o","d","i","f","i",
      "e","r","3",","," ","m","o","d","i","f","i","e","r","4",","," ","m",
      "o","d","i","f","i","e","r","5",","," ","m","o","d","i","f","i","e",
      "r","6",","," ","m","o","d","i","f","i","e","r","7",","," ","m","o",
      "d","i","f","i","e","r","8","}"," ","-","-","s","r","e","f"," ">>

\* a batch as found in a specification that came from an analysis or a
\* project file
PermutationBatch(number, name, code) ==
    [batch_number |-> number,
     batch_name |-> <<name>>,
     category |-> "Subjects",
     image_count |-> 40,
     prompt |-> SegDefaultBody \o <<" ", "-", "-", "s", "r", "e", "f", " ">> \o code,
     priority |-> "high",
     notes |-> ""]

\* batch lists of parsed payloads and project files: JSON.parse(...) as
\* DatasetSpecification checks nothing, so the numbers are whatever the file
\* or the model's answer holds
LoadedBatchNumbers == {<<>>, <<1>>, <<1, 2>>, <<1, 2, 3>>, <<2>>, <<1, 3>>, <<1, 1>>}

BatchNames == <<"A", "B", "C">>

LoadedSpecification(numbers, code) ==
    [present |-> TRUE,
     sref_code |-> code,
     permutation_batches |->
         [i \in 1..Len(numbers) |-> PermutationBatch(numbers[i], BatchNames[i], code)],
     optimal_subject_distribution |-> <<>>]

updateBatch(spec, index, b) ==
    [spec EXCEPT !.permutation_batches[index + 1] = b]

addBatch(spec) ==
    LET newBatchNumber == Len(spec.permutation_batches) + 1
        newBatch == [batch_number |-> newBatchNumber,
                     batch_name |-> <<"New Batch ", ToString(newBatchNumber)>>,
                     category |-> "Miscellaneous",
                     image_count |-> 40,
                     prompt |-> DefaultTemplate \o spec.sref_code,
                     priority |-> "medium",
                     notes |-> ""]
    IN [spec EXCEPT !.permutation_batches = Append(@, newBatch)]

\* mutant: splice without the renumbering loop
removeBatch_NoRenumber(spec, index) ==
    LET bs == spec.permutation_batches
    IN [spec EXCEPT !.permutation_batches =
            SubSeq(bs, 1, index) \o SubSeq(bs, index + 2, Len(bs))]

\* splice(index, 1), then batch_number = i + 1 for every remaining batch
removeBatch(spec, index) ==
    LET bs == spec.permutation_batches
        spliced == SubSeq(bs, 1, index) \o SubSeq(bs, index + 2, Len(bs))
    IN [spec EXCEPT !.permutation_batches =
            [i \in 1..Len(spliced) |-> [spliced[i] EXCEPT !.batch_number = i]]]

\* mutant: the copy keeps the number of the original
duplicateBatch_KeepNumber(spec, index) ==
    LET original == spec.permutation_batches[index + 1]
        newBatch == [original EXCEPT !.batch_name = original.batch_name \o <<" (Copy)">>]
    IN [spec EXCEPT !.permutation_batches = Append(@, newBatch)]

duplicateBatch(spec, index) ==
    LET original == spec.permutation_batches[index + 1]
        newBatch == [original EXCEPT
                        !.batch_number = Len(spec.permutation_batches) + 1,
                        !.batch_name = original.batch_name \o <<" (Copy)">>]
    IN [spec EXCEPT !.permutation_batches = Append(@, newBatch)]

\* the indices v-for hands to the handlers
Indices == 0..(Len(specification.permutation_batches) - 1)

\* what a card can emit for the batch it shows: a copy of its localBatch with
\* an edited prompt (batch_number is displayed, not editable)
EditedPrompt == SegGroup3 \o SegSref

CardUpdates(b) == {[b EXCEPT !.prompt = EditedPrompt]}

Did(op, index) ==
    /\ opCount < MaxOps
    /\ lastOp' = [op |-> op, index |-> index]
    /\ opCount' = opCount + 1

UpdateBatch ==
    /\ specification.present
    /\ \E index \in Indices :
         \E b \in CardUpdates(specification.permutation_batches[index + 1]) :
            /\ specification' = updateBatch(specification, index, b)
            /\ Did("updateBatch", index)
    /\ isDirty' = TRUE
    /\ UNCHANGED <<docValidation, orchVars, validVars, asyncVars>>

AddBatch ==
    /\ specification.present
    /\ specification' = addBatch(specification)
    /\ Did("addBatch", 0)
    /\ isDirty' = TRUE
    /\ UNCHANGED <<docValidation, orchVars, validVars, asyncVars>>

\* store.removeBatch(index) once the user has confirmed
RemoveBatch ==
    /\ specification.present
    /\ \E index \in Indices :
         /\ specification' = removeBatch(specification, index)
         /\ Did("removeBatch", index)
    /\ isDirty' = TRUE
    /\ UNCHANGED <<docValidation, orchVars, validVars, asyncVars>>

DuplicateBatch ==
    /\ specification.present
    /\ \E index \in Indices :
         /\ specification' = duplicateBatch(specification, index)
         /\ Did("duplicateBatch", index)
    /\ isDirty' = TRUE
    /\ UNCHANGED <<docValidation, orchVars, validVars, asyncVars>>

\* sref_code is a string: digits, nothing, or anything else
StyleCodes == {<<"1">>, <<"2", "3">>, <<>>, <<"7", "a">>}

InitStore ==
    /\ settingsFile = [state |-> "absent", value |-> DefaultSettings]
    /\ apiKeySet = FALSE
    /\ pc = "idle"
    /\ settings = DefaultSettings
    /\ use_api = FALSE
    /\ calls = <<>>
    /\ remoteErr = "none"
    /\ result = NoResult
    /\ batch = NoBatch
    /\ expectedSrefCode = <<>>
    /\ validation = validateBatch(NoBatch, <<>>)
    /\ edits = 0
    /\ recomputed = FALSE
    /\ NothingLoading
    /\ \E numbers \in LoadedBatchNumbers, code \in StyleCodes :
          specification = LoadedSpecification(numbers, code)
    /\ isDirty = FALSE
    /\ lastOp = NoOp
    /\ opCount = 0
    /\ docValidation = NotValidated

NextStore == UpdateBatch \/ AddBatch \/ RemoveBatch \/ DuplicateBatch

SpecStore == InitStore /\ [][NextStore]_vars

(***************************************************************************)
(* validateDatasetSpecification (utils/validation) as BatchValidator       *)
(* computes it                                                             *)
(***************************************************************************)
\* a value of optimal_subject_distribution: a number, as types/schema.ts
\* declares it, or a string such as "100%", as the analysis payload carries it
Num(n) == [type |-> "number", number |-> n, chars |-> <<>>]

Str(chars) == [type |-> "string", number |-> 0, chars |-> chars]

\* the messages validateDatasetSpecification pushes
DocMessage(kind, number, detail) == [kind |-> kind, number |-> number, detail |-> detail]

\* the function did not return: an exception left it
Threw == [kind |-> "throw", isValid |-> FALSE, errors |-> <<>>, warnings |-> <<>>]

\* mutant: the messages are returned last first
Returned_Reversed(errors, warnings) ==
    [kind |-> "result", isValid |-> Len(errors) = 0,
     errors |-> [k \in 1..Len(errors) |-> errors[Len(errors) + 1 - k]],
     warnings |-> [k \in 1..Len(warnings) |-> warnings[Len(warnings) + 1 - k]]]

Returned(errors, warnings) ==
    [kind |-> "result", isValid |-> Len(errors) = 0, errors |-> errors, warnings |-> warnings]

SrefCodeLength == 10

MinBatches == 8

DistributionTarget == 100

DistributionTolerance == 5

MinTotalImages == 50

MaxTotalImages == 200

\* /^\d{10}$/.test(code)
IsSrefCodeFormat(code) ==
    Len(code) = SrefCodeLength /\ \A k \in 1..Len(code) : code[k] \in Digits

\* p.replace('%', ''): the first "%" removed
ReplacePercent(s) ==
    LET ks == {k \in 1..Len(s) : s[k] = "%"}
    IN IF ks = {} THEN s
       ELSE LET k == CHOOSE x \in ks : \A y \in ks : x <= y
            IN SubSeq(s, 1, k - 1) \o SubSeq(s, k + 1, Len(s))

DigitValue(c) ==
    CASE c = "0" -> 0 [] c = "1" -> 1 [] c = "2" -> 2 [] c = "3" -> 3 [] c = "4" -> 4
      [] c = "5" -> 5 [] c = "6" -> 6 [] c = "7" -> 7 [] c = "8" -> 8 [] c = "9" -> 9

RECURSIVE DigitsValue(_)
DigitsValue(ds) ==
    IF ds = <<>> THEN 0
    ELSE 10 * DigitsValue(SubSeq(ds, 1, Len(ds) - 1)) + DigitValue(ds[Len(ds)])

NaN == [nan |-> TRUE, value |-> 0]

Number(n) == [nan |-> FALSE, value |-> n]

\* parseFloat(s) for strings without sign or fraction: leading white space is
\* skipped, the longest run of digits is the value, NaN when there is none
parseFloat(s) ==
    LET w == RunEnd(s, 1, Whitespace)
        d == RunEnd(s, w + 1, Digits)
    IN IF d >= w + 1 THEN Number(DigitsValue(SubSeq(s, w + 1, d))) ELSE NaN

\* percentages.reduce((sum, p) => sum + p, 0)
RECURSIVE SumPercentages(_)
SumPercentages(ps) ==
    IF ps = <<>> THEN Number(0)
    ELSE LET rest == SumPercentages(SubSeq(ps, 1, Len(ps) - 1))
             p == ps[Len(ps)]
         IN IF rest.nan \/ p.nan THEN NaN ELSE Number(rest.value + p.value)

Abs(x) == IF x < 0 THEN -x ELSE x

\* Math.abs(total - 100) > 5, false for NaN
DistributionOff(total) ==
    ~total.nan /\ Abs(total.value - DistributionTarget) > DistributionTolerance

\* spec.permutation_batches.reduce((sum, b) => sum + b.image_count, 0)
RECURSIVE TotalImages(_)
TotalImages(bs) ==
    IF bs = <<>> THEN 0
    ELSE TotalImages(SubSeq(bs, 1, Len(bs) - 1)) + bs[Len(bs)].image_count

\* the errors the forEach over the batches pushes, in order
RECURSIVE BatchErrors(_, _)
BatchErrors(bs, code) ==
    IF bs = <<>> THEN <<>>
    ELSE LET b == bs[Len(bs)]
             v == validateBatch(b, code)
         IN BatchErrors(SubSeq(bs, 1, Len(bs) - 1), code)
              \o (IF ~v.isValid THEN <<DocMessage("batch", b.batch_number, v.errors)>>
                  ELSE <<>>)

\* the warnings the forEach over the batches pushes, in order
RECURSIVE BatchWarnings(_, _)
BatchWarnings(bs, code) ==
    IF bs = <<>> THEN <<>>
    ELSE LET b == bs[Len(bs)]
             v == validateBatch(b, code)
         IN BatchWarnings(SubSeq(bs, 1, Len(bs) - 1), code)
              \o [k \in 1..Len(v.warnings) |->
                     DocMessage("batch", b.batch_number, <<v.warnings[k]>>)]

validateDatasetSpecification(spec) ==
    LET bs == spec.permutation_batches
        w1 == IF ~IsSrefCodeFormat(spec.sref_code)
                THEN <<DocMessage("sref_format", 0, <<>>)>> ELSE <<>>
        e1 == IF Len(bs) < MinBatches
                THEN <<DocMessage("batch_count", Len(bs), <<>>)>> ELSE <<>>
        batchNumbers == [i \in 1..Len(bs) |-> bs[i].batch_number]
        uniqueNumbers == {batchNumbers[i] : i \in 1..Len(bs)}
        e2 == IF Cardinality(uniqueNumbers) # Len(batchNumbers)
                THEN <<DocMessage("duplicate_numbers", 0, <<>>)>> ELSE <<>>
        e3 == BatchErrors(bs, spec.sref_code)
        w2 == BatchWarnings(bs, spec.sref_code)
        distribution == spec.optimal_subject_distribution
        \* p.replace is not a function when p is a number: TypeError
        throws == \E k \in 1..Len(distribution) : distribution[k].type # "string"
        percentages == [k \in 1..Len(distribution) |->
                           parseFloat(ReplacePercent(distribution[k].chars))]
        total == SumPercentages(percentages)
        w3 == IF DistributionOff(total)
                THEN <<DocMessage("distribution", total.value, <<>>)>> ELSE <<>>
        totalImages == TotalImages(bs)
        w4 == IF totalImages < MinTotalImages
                THEN <<DocMessage("size_low", totalImages, <<>>)>> ELSE <<>>
        w5 == IF totalImages > MaxTotalImages
                THEN <<DocMessage("size_high", totalImages, <<>>)>> ELSE <<>>
    IN IF throws THEN Threw
       ELSE Returned(e1 \o e2 \o e3, w1 \o w2 \o w3 \o w4 \o w5)

\* the specifications BatchValidator is given: up to MaxDocBatches batches
MaxDocBatches == 9

ImageCounts == {5, 6, 25, 40}

Numberings == {"in order", "one repeated", "one skipped", "descending"}

\* the batch_number of batch i of n
DocNumber(i, n, numbering) ==
    CASE numbering = "in order" -> i
      [] numbering = "one repeated" -> IF i = 2 THEN 1 ELSE i
      [] numbering = "one skipped" -> IF i >= 2 THEN i + 1 ELSE i
      [] numbering = "descending" -> n + 1 - i

TenDigitCode == <<"1", "2", "3", "4", "5", "6", "7", "8", "9", "0">>

DocCodes == {TenDigitCode, <<"7">>}

Percent(tens, units) == Str(<<tens, units, "%">>)

Distributions ==
    { <<>>,
      <<Str(<<"1", "0", "0", "%">>)>>,
      <<Percent("6", "0"), Percent("4", "0")>>,
      <<Percent("5", "0"), Percent("4", "5")>>,
      <<Percent("5", "0"), Percent("4", "4")>>,
      <<Percent("5", "0"), Percent("5", "5")>>,
      <<Percent("5", "0"), Percent("5", "6")>>,
      <<Percent("5", "0"), Percent("3", "0")>>,
      <<Str(<<"6", "0">>), Str(<<" ", "4", "0", " ", "%">>)>>,
      <<Str(<<"m", "o", "s", "t">>), Percent("4", "0")>>,
      <<Num(100)>>,
      <<Num(60), Num(40)>>,
      <<Num(50), Num(30)>> }

\* a prompt validateBatch accepts with a style-keyword warning
WarnPrompt(code) ==
    SegDefaultBody \o <<" ", "r", "e", "t", "r", "o", " ", "-", "-", "s", "r", "e", "f", " ">> \o code

\* a prompt validateBatch rejects, with a style-keyword warning as well
ErrWarnPrompt == SegGroup3 \o <<" ", "R", "e", "t", "r", "o">> \o SegSref

Flaws == {"none", "errors", "both"}

\* the prompt of batch i: with "errors" the first and the third batch have a
\* prompt that validateBatch rejects; with "both" the first is rejected, the
\* second gets a warning and the third is rejected and gets a warning
DocPrompt(i, flaw, code, prompt) ==
    CASE flaw = "errors" /\ i \in {1, 3} -> EditedPrompt
      [] flaw = "both" /\ i = 1 -> EditedPrompt
      [] flaw = "both" /\ i = 2 -> WarnPrompt(code)
      [] flaw = "both" /\ i = 3 -> ErrWarnPrompt
      [] OTHER -> prompt

DocBatch(i, n, numbering, count, flaw, code) ==
    [PermutationBatch(DocNumber(i, n, numbering), ToString(i), code) EXCEPT
        !.image_count = count,
        !.prompt = DocPrompt(i, flaw, code, @)]

\* the distributions every batch list is combined with: one of strings, one of
\* numbers
BaseDistributions ==
    { <<Percent("5", "0"), Percent("3", "0")>>, <<Num(60), Num(40)>> }

Document(n, numbering, count, flaw, code, distribution) ==
    [present |-> TRUE,
     sref_code |-> code,
     permutation_batches |->
         [i \in 1..n |-> DocBatch(i, n, numbering, count, flaw, code)],
     optimal_subject_distribution |-> distribution]

\* every batch list with the base distributions, and every distribution with
\* a few batch lists
Documents ==
    { Document(n, numbering, count, flaw, code, distribution) :
        n \in 0..MaxDocBatches, numbering \in Numberings, count \in ImageCounts,
        flaw \in Flaws, code \in DocCodes, distribution \in BaseDistributions }
    \cup
    { Document(n, numbering, 25, "none", code, distribution) :
        n \in {0, 2, 8}, numbering \in {"in order", "one repeated"},
        code \in DocCodes, distribution \in Distributions }

\* BatchValidator evaluates its computed `validation`
Validate ==
    /\ specification.present
    /\ docValidation = NotValidated
    /\ docValidation' = validateDatasetSpecification(specification)
    /\ UNCHANGED <<specification, isDirty, lastOp, opCount, orchVars, validVars, asyncVars>>

InitDoc ==
    /\ settingsFile = [state |-> "absent", value |-> DefaultSettings]
    /\ apiKeySet = FALSE
    /\ pc = "idle"
    /\ settings = DefaultSettings
    /\ use_api = FALSE
    /\ calls = <<>>
    /\ remoteErr = "none"
    /\ result = NoResult
    /\ batch = NoBatch
    /\ expectedSrefCode = <<>>
    /\ validation = validateBatch(NoBatch, <<>>)
    /\ edits = 0
    /\ recomputed = FALSE
    /\ NothingLoading
    /\ specification \in Documents
    /\ isDirty = FALSE
    /\ lastOp = NoOp
    /\ opCount = 0
    /\ docValidation = NotValidated

NextDoc == Validate

SpecDoc == InitDoc /\ [][NextDoc]_vars

(***************************************************************************)
(* The store's analyzeStyle and loadProject (stores/project.ts), started   *)
(* from the upload view's buttons (views/UploadView.vue).  Each `await`    *)
(* is a point where the invocation is suspended and other handlers run.    *)
(***************************************************************************)
\* the number of invocations started in one behaviour
MaxRuns == 2

\* what the user can upload and type
UploadedImages == {<<"a.png", "b.png">>, <<"a.png", "b.png", "c.png">>}

TypedSrefCodes == {<<"1", "2">>, <<"1", "2", "3">>}

hasImages == Len(imagePaths) >= 3

hasSrefCodeTyped == Len(srefCode) >= 3

canAnalyze == hasImages /\ hasSrefCodeTyped

\* UploadView: :disabled="isAnalyzingDisabled"
isAnalyzingDisabled == ~canAnalyze \/ isLoading

\* the texts a backend can return as AnalysisResult.data
ResponseTexts == {"specA", "null", "not json"}

\* the texts load_project can read from a project file
ProjectTexts == {"projectA", "projectNoSpec", "null", "not json"}

\* what a finished analyze_style command answers
AnalysisResults ==
    {RemoteOk(p) : p \in ResponseTexts}
       \cup {LocalOk(p, tried) : p \in ResponseTexts, tried \in BOOLEAN}
       \cup {RemoteError("network"), OfflineError("ModelNotFound")}

\* JSON.parse: the value of a text, or a SyntaxError
JSONparse(text) ==
    CASE text = "specA" ->
           [threw |-> FALSE, null |-> FALSE, imagePaths |-> <<>>, srefCode |-> <<>>,
            specification |-> LoadedSpecification(<<1, 2>>, <<"2", "3">>)]
      [] text = "projectA" ->
           [threw |-> FALSE, null |-> FALSE,
            imagePaths |-> <<"p.png", "q.png", "r.png">>,
            srefCode |-> <<"4", "5", "6">>,
            specification |-> LoadedSpecification(<<1>>, <<"1">>)]
      [] text = "projectNoSpec" ->
           [threw |-> FALSE, null |-> FALSE,
            imagePaths |-> <<"p.png">>, srefCode |-> <<>>,
            specification |-> NoSpecification]
      [] text = "null" ->
           [threw |-> FALSE, null |-> TRUE, imagePaths |-> <<>>, srefCode |-> <<>>,
            specification |-> NoSpecification]
      [] OTHER ->
           [threw |-> TRUE, null |-> FALSE, imagePaths |-> <<>>, srefCode |-> <<>>,
            specification |-> NoSpecification]

\* `JSON.parse(result.data) as DatasetSpecification`: the parsed value as the
\* store keeps it (null stays null)
ParsedSpecification(text) == JSONparse(text).specification

\* the message the catch blocks record: e.message of an Error, String(e) of
\* the string a rejected command carries
SyntaxErrorMessage == Text(<<"Unexpected token">>)

TypeErrorMessage == Text(<<"Cannot read properties of null">>)

RejectionMessage(r) == Text(<<r.prefix, ": ", r.cause>>)

LoadRejections == {Err("Failed to read project file", "not found")}

\* one invocation: the operation, where it is suspended, what its command
\* answered
Run(op, at) == [op |-> op, at |-> at, result |-> NoResult]

Pending(r) == r.at \notin {"returned", "threw"}

Started(op, at) ==
    /\ Len(runs) < MaxRuns
    /\ runs' = Append(runs, Run(op, at))

\* store.setImages(paths)
SetImages ==
    /\ \E paths \in UploadedImages :
          /\ paths # imagePaths
          /\ imagePaths' = paths
    /\ isDirty' = TRUE
    /\ UNCHANGED <<srefCode, currentStep, isLoading, error, statusMessage,
                   lastModeUsed, lastFallbackUsed, runs, timers>>
    /\ UNCHANGED <<specification, lastOp, opCount, docValidation, orchVars, validVars>>

\* store.setSrefCode(code)
SetSrefCode ==
    /\ \E code \in TypedSrefCodes :
          /\ code # srefCode
          /\ srefCode' = code
    /\ isDirty' = TRUE
    /\ UNCHANGED <<imagePaths, currentStep, isLoading, error, statusMessage,
                   lastModeUsed, lastFallbackUsed, runs, timers>>
    /\ UNCHANGED <<specification, lastOp, opCount, docValidation, orchVars, validVars>>

\* the statusMessage analyzeStyle shows first
ReadingMessage ==
    Text(<<"Reading ", ToString(Len(imagePaths)), " image",
           IF Len(imagePaths) > 1 THEN "s" ELSE "", "...">>)

\* the Analyze button: analyzeStyle up to its first await
AnalyzeStyle ==
    /\ ~isAnalyzingDisabled
    /\ canAnalyze
    /\ Started("analyzeStyle", "reading")
    /\ isLoading' = TRUE
    /\ error' = Null
    /\ statusMessage' = ReadingMessage
    /\ UNCHANGED <<imagePaths, srefCode, currentStep, lastModeUsed, lastFallbackUsed,
                   timers>>
    /\ UNCHANGED <<projectVars, orchVars, validVars>>

\* settings.value?.analysis_mode || 'Auto'; the store's settings ref is set by
\* the settings view and is an input here
ModeHints == {"Auto", "Offline"}

HintMessage(modeHint) ==
    IF modeHint = "Offline"
    THEN Text(<<"Loading Qwen2-VL model (first time: 10-15s)...">>)
    ELSE Text(<<"Sending request to Claude API...">>)

\* analyzeStyle resumes after one of its three 100 ms delays
AfterDelay ==
    /\ \E i \in 1..Len(runs) :
         /\ runs[i].op = "analyzeStyle"
         /\ \/ /\ runs[i].at = "reading"
               /\ statusMessage' = Text(<<"Encoding images to base64...">>)
               /\ runs' = [runs EXCEPT ![i].at = "encoding"]
            \/ /\ runs[i].at = "encoding"
               /\ \E modeHint \in ModeHints : statusMessage' = HintMessage(modeHint)
               /\ runs' = [runs EXCEPT ![i].at = "hinting"]
            \/ /\ runs[i].at = "hinting"
               /\ statusMessage' = Text(<<"Analyzing style characteristics...">>)
               /\ runs' = [runs EXCEPT ![i].at = "analyze_style"]
    /\ UNCHANGED <<imagePaths, srefCode, currentStep, isLoading, error,
                   lastModeUsed, lastFallbackUsed, timers>>
    /\ UNCHANGED <<projectVars, orchVars, validVars>>

\* mutant: no finally block
AnalyzeThrows_StillLoading(i, message) ==
    /\ error' = message
    /\ statusMessage' = Null
    /\ isLoading' = isLoading
    /\ timers' = timers
    /\ runs' = [runs EXCEPT ![i].at = "threw"]

\* catch { error = message; statusMessage = null; throw e }
\* finally { isLoading = false; setTimeout(clear statusMessage, 1000) }
AnalyzeThrows(i, message) ==
    /\ error' = message
    /\ statusMessage' = Null
    /\ isLoading' = FALSE
    /\ timers' = timers + 1
    /\ runs' = [runs EXCEPT ![i].at = "threw"]

\* invoke('analyze_style') resolves: the mode is stored, then a 100 ms delay
AnalyzeStyleResolves ==
    /\ \E i \in 1..Len(runs) :
         /\ runs[i].op = "analyzeStyle"
         /\ runs[i].at = "analyze_style"
         /\ \E r \in AnalysisResults :
              /\ r.kind = "ok"
              /\ lastModeUsed' = Text(<<r.mode_used>>)
              /\ lastFallbackUsed' = r.fallback_used
              /\ runs' = [runs EXCEPT ![i].at = "processing", ![i].result = r]
    /\ statusMessage' = Text(<<"Processing response...">>)
    /\ UNCHANGED <<imagePaths, srefCode, currentStep, isLoading, error, timers>>
    /\ UNCHANGED <<projectVars, orchVars, validVars>>

\* invoke('analyze_style') rejects
AnalyzeStyleRejects ==
    /\ \E i \in 1..Len(runs) :
         /\ runs[i].op = "analyzeStyle"
         /\ runs[i].at = "analyze_style"
         /\ \E r \in AnalysisResults :
              /\ r.kind = "err"
              /\ AnalyzeThrows(i, RejectionMessage(r))
    /\ UNCHANGED <<imagePaths, srefCode, currentStep, lastModeUsed, lastFallbackUsed>>
    /\ UNCHANGED <<projectVars, orchVars, validVars>>

CompleteMessage(r) ==
    IF r.fallback_used
    THEN Text(<<"Analysis complete (used offline fallback)!">>)
    ELSE Text(<<"Analysis complete (", r.mode_used, " mode)!">>)

\* analyzeStyle resumes after "Processing response...": JSON.parse(result.data)
ProcessResponse ==
    /\ \E i \in 1..Len(runs) :
         /\ runs[i].op = "analyzeStyle"
         /\ runs[i].at = "processing"
         /\ IF JSONparse(runs[i].result.data).threw
            THEN /\ AnalyzeThrows(i, SyntaxErrorMessage)
                 /\ UNCHANGED <<specification, isDirty, currentStep>>
            ELSE /\ specification' = ParsedSpecification(runs[i].result.data)
                 /\ isDirty' = TRUE
                 /\ currentStep' = "analysis"
                 /\ statusMessage' = CompleteMessage(runs[i].result)
                 /\ runs' = [runs EXCEPT ![i].at = "complete"]
                 /\ UNCHANGED <<isLoading, error, timers>>
    /\ UNCHANGED <<imagePaths, srefCode, lastModeUsed, lastFallbackUsed>>
    /\ UNCHANGED <<lastOp, opCount, docValidation, orchVars, validVars>>

\* analyzeStyle returns after its 500 ms delay, through finally
AnalyzeStyleReturns ==
    /\ \E i \in 1..Len(runs) :
         /\ runs[i].op = "analyzeStyle"
         /\ runs[i].at = "complete"
         /\ runs' = [runs EXCEPT ![i].at = "returned"]
    /\ isLoading' = FALSE
    /\ timers' = timers + 1
    /\ UNCHANGED <<imagePaths, srefCode, currentStep, error, statusMessage,
                   lastModeUsed, lastFallbackUsed>>
    /\ UNCHANGED <<projectVars, orchVars, validVars>>

\* the callback finally scheduled: statusMessage.value = null
ClearStatus ==
    /\ timers > 0
    /\ timers' = timers - 1
    /\ statusMessage' = Null
    /\ UNCHANGED <<imagePaths, srefCode, currentStep, isLoading, error,
                   lastModeUsed, lastFallbackUsed, runs>>
    /\ UNCHANGED <<projectVars, orchVars, validVars>>

\* the Open Project button, a file chosen: loadProject up to its await
LoadProject ==
    /\ Started("loadProject", "load_project")
    /\ isLoading' = TRUE
    /\ error' = Null
    /\ UNCHANGED <<imagePaths, srefCode, currentStep, statusMessage,
                   lastModeUsed, lastFallbackUsed, timers>>
    /\ UNCHANGED <<projectVars, orchVars, validVars>>

\* catch { error = message; throw e } finally { isLoading = false }; the
\* view's catch stores the same message again
LoadThrows(i, message) ==
    /\ error' = message
    /\ isLoading' = FALSE
    /\ runs' = [runs EXCEPT ![i].at = "threw"]

\* invoke('load_project') resolves: JSON.parse(data), then the assignments
LoadProjectResolves ==
    /\ \E i \in 1..Len(runs) :
         /\ runs[i].op = "loadProject"
         /\ runs[i].at = "load_project"
         /\ \E data \in ProjectTexts :
              LET projectData == JSONparse(data)
              IN  IF projectData.threw \/ projectData.null
                  THEN /\ LoadThrows(i, IF projectData.threw THEN SyntaxErrorMessage
                                                           ELSE TypeErrorMessage)
                       /\ UNCHANGED <<imagePaths, srefCode, specification, isDirty,
                                      currentStep>>
                  ELSE /\ imagePaths' = projectData.imagePaths
                       /\ srefCode' = projectData.srefCode
                       /\ specification' = projectData.specification
                       /\ isDirty' = FALSE
                       /\ currentStep' = IF projectData.specification.present
                                         THEN "batches" ELSE currentStep
                       /\ isLoading' = FALSE
                       /\ runs' = [runs EXCEPT ![i].at = "returned"]
                       /\ UNCHANGED error
    /\ UNCHANGED <<statusMessage, lastModeUsed, lastFallbackUsed, timers>>
    /\ UNCHANGED <<lastOp, opCount, docValidation, orchVars, validVars>>

\* invoke('load_project') rejects
LoadProjectRejects ==
    /\ \E i \in 1..Len(runs) :
         /\ runs[i].op = "loadProject"
         /\ runs[i].at = "load_project"
         /\ \E r \in LoadRejections : LoadThrows(i, RejectionMessage(r))
    /\ UNCHANGED <<imagePaths, srefCode, currentStep, statusMessage,
                   lastModeUsed, lastFallbackUsed, timers>>
    /\ UNCHANGED <<projectVars, orchVars, validVars>>

InitLoad ==
    /\ settingsFile = [state |-> "absent", value |-> DefaultSettings]
    /\ apiKeySet = FALSE
    /\ pc = "idle"
    /\ settings = DefaultSettings
    /\ use_api = FALSE
    /\ calls = <<>>
    /\ remoteErr = "none"
    /\ result = NoResult
    /\ batch = NoBatch
    /\ expectedSrefCode = <<>>
    /\ validation = validateBatch(NoBatch, <<>>)
    /\ edits = 0
    /\ recomputed = FALSE
    /\ NothingLoading
    /\ NoProject

NextLoad ==
    \/ SetImages
    \/ SetSrefCode
    \/ AnalyzeStyle
    \/ AfterDelay
    \/ AnalyzeStyleResolves
    \/ AnalyzeStyleRejects
    \/ ProcessResponse
    \/ AnalyzeStyleReturns
    \/ ClearStatus
    \/ LoadProject
    \/ LoadProjectResolves
    \/ LoadProjectRejects

SpecLoad == InitLoad /\ [][NextLoad]_vars

(***************************************************************************)
(* Claims about analyze_style (checked under SpecOrch)                     *)
(***************************************************************************)
Has(op, out) == \E i \in 1..Len(calls) : calls[i].op = op /\ calls[i].out = out

Called(op) == \E i \in 1..Len(calls) : calls[i].op = op

LocalOps ==
    {"check_system_requirements", "check_model_status", "get_model_path",
     "load_images", "Qwen2VLInference::new", "analyze_images"}

LocalInvoked == \E op \in LocalOps : Called(op)

\* the causes an error value carries: format! interpolates one error only
Causes(r) == IF r.kind = "err" THEN {r.cause} ELSE {}

\* the OfflineAnalysisError a failed call of the local attempt is mapped to
LocalCauseOf(c) ==
    CASE c.op = "check_system_requirements" -> "InsufficientMemory"
      [] c.op = "check_model_status" ->
             IF c.out = "err" THEN "ModelLoadError" ELSE "ModelNotFound"
      [] c.op = "get_model_path" -> "ModelLoadError"
      [] c.op = "load_images" -> "ImageProcessingError"
      [] c.op = "Qwen2VLInference::new" -> "ModelLoadError"
      [] c.op = "analyze_images" -> "InferenceFailed"
      [] OTHER -> "none"

\* C1: with fallback enabled, once the remote attempt has failed and the local
\* attempt has passed both pre-flight checks and its inference has succeeded, the
\* invocation has completed with mode_used "offline" and fallback_used true.
C1_FallbackCompletesLocal ==
    ( /\ settings.auto_fallback
      /\ Has("claude::analyze_style", "err")
      /\ Has("check_system_requirements", "ok")
      /\ Has("check_model_status", "Ready")
      /\ Has("analyze_images", "ok") )
    => /\ pc = "done"
       /\ result.kind = "ok"
       /\ result.mode_used = "offline"
       /\ result.fallback_used = TRUE

C1_Witness ==
    /\ pc = "done"
    /\ settings.auto_fallback
    /\ Has("claude::analyze_style", "err")
    /\ Has("check_system_requirements", "ok")
    /\ Has("check_model_status", "Ready")
    /\ Has("analyze_images", "ok")
    /\ result.mode_used = "offline"

\* C2: with fallback disabled, once the remote attempt has failed the invocation
\* has failed with the remote backend's error and no call of the local backend
\* (pre-flight or inference) has been made in that run.
C2_NoFallbackRemoteError ==
    ( /\ pc # "idle"
      /\ ~settings.auto_fallback
      /\ Has("claude::analyze_style", "err") )
    => /\ pc = "failed"
       /\ result = RemoteError(remoteErr)
       /\ remoteErr \in RemoteErrors
       /\ ~LocalInvoked

C2_Witness ==
    /\ pc = "failed"
    /\ ~settings.auto_fallback
    /\ Has("claude::analyze_style", "err")
    /\ result.prefix = "Claude API error"

\* C3: in mode Offline, once check_system_requirements has failed for the
\* selected variant the invocation has failed with InsufficientMemory and neither
\* the model load nor analyze_images has been called.
C3_ResourceGate ==
    ( /\ pc # "idle"
      /\ settings.analysis_mode = "Offline"
      /\ Has("check_system_requirements", "err") )
    => /\ pc = "failed"
       /\ result.kind = "err"
       /\ result.cause = "InsufficientMemory"
       /\ ~Called("Qwen2VLInference::new")
       /\ ~Called("analyze_images")
       /\ ~Called("check_model_status")

C3_Witness ==
    /\ pc = "failed"
    /\ settings.analysis_mode = "Offline"
    /\ Has("check_system_requirements", "err")
    /\ result.cause = "InsufficientMemory"

FallbackLocalFailed ==
    /\ pc = "failed"
    /\ Has("claude::analyze_style", "err")
    /\ LocalInvoked

C5_NoCredential ==
    /\ ( /\ pc # "idle"
         /\ settings.analysis_mode = "CloudAPI"
         /\ ~apiKeySet
         /\ ~settings.auto_fallback )
       => /\ pc = "failed"
          /\ ~Called("claude::analyze_style")
          /\ ~LocalInvoked
    /\ ( /\ pc # "idle"
         /\ settings.analysis_mode = "Auto"
         /\ ~apiKeySet )
       => /\ ~Called("encode_images")
          /\ ~Called("claude::analyze_style")
          /\ (Len(calls) > 1 => calls[2].op = "check_system_requirements")

\* C6: once the remote attempt has succeeded the invocation has completed with
\* mode_used "cloud", fallback_used false and exactly the remote backend's
\* payload, and no call of the local backend has been made.
C6_RemoteSuccess ==
    \A i \in 1..Len(calls) :
        (calls[i].op = "claude::analyze_style" /\ calls[i].out = "ok")
        => /\ pc = "done"
           /\ result.kind = "ok"
           /\ result.mode_used = "cloud"
           /\ result.fallback_used = FALSE
           /\ result.data = calls[i].data
           /\ ~LocalInvoked

C6_Witness ==
    /\ pc = "done"
    /\ Has("claude::analyze_style", "ok")
    /\ result.mode_used = "cloud"
    /\ result.data = "specB"

\* the number of calls of op in a call log
CallCount(cs, op) == Cardinality({i \in 1..Len(cs) : cs[i].op = op})

\* the position of the call of op in the log, 0 when it was not called
CallAt(op) ==
    IF Called(op) THEN CHOOSE i \in 1..Len(calls) : calls[i].op = op ELSE 0

Terminal == {"done", "failed"}

\* C23: every invocation of analyze_style ends in exactly one terminal
\* outcome (one result or one error), makes at most one remote and at most
\* one local attempt, starts the local attempt, when both occur, only after
\* the remote attempt has failed, and retries no attempt and no pre-flight
\* check.
C23_OneOutcomeNoRetry ==
    [][ /\ \A op \in LocalOps \cup {"load_settings", "encode_images", "claude::analyze_style"} :
              CallCount(calls', op) <= 1
        /\ (pc' = "done") <=> (result'.kind = "ok")
        /\ (pc' = "failed") <=> (result'.kind = "err")
        /\ \A i, j \in 1..Len(calls') :
              (calls'[i].op = "claude::analyze_style" /\ calls'[j].op \in LocalOps)
                 => (i < j /\ calls'[i].out = "err")
        /\ (pc \in Terminal /\ pc' # "idle") => (result' = result /\ calls' = calls /\ pc' = pc)
      ]_vars

C23_Witness ==
    /\ pc = "done"
    /\ result.kind = "ok"
    /\ Len(calls) = 9
    /\ CallCount(calls, "claude::analyze_style") = 1
    /\ CallCount(calls, "check_system_requirements") = 1
    /\ CallCount(calls, "analyze_images") = 1
    /\ CallAt("claude::analyze_style") < CallAt("check_system_requirements")

\* the model's status is not Ready: not downloaded, downloading or error
NotReady == {"NotDownloaded", "Downloading", "Error"}

\* C24: in every local attempt check_system_requirements is evaluated first
\* and check_model_status second, both before the model is loaded or inference
\* is called; if the status of the selected variant is anything other than
\* Ready, the attempt fails with the ModelNotFound error and inference is never
\* called.
C24_PreflightOrder ==
    /\ Called("check_model_status") =>
          /\ Has("check_system_requirements", "ok")
          /\ CallAt("check_system_requirements") < CallAt("check_model_status")
    /\ \A op \in {"get_model_path", "load_images", "Qwen2VLInference::new", "analyze_images"} :
          Called(op) =>
             /\ Has("check_system_requirements", "ok")
             /\ Has("check_model_status", "Ready")
             /\ CallAt("check_system_requirements") < CallAt("check_model_status")
             /\ CallAt("check_model_status") < CallAt(op)
    /\ (\E st \in NotReady : Has("check_model_status", st)) =>
          /\ pc = "failed"
          /\ result.kind = "err"
          /\ result.prefix = "Offline analysis error"
          /\ result.cause = "ModelNotFound"
          /\ ~Called("Qwen2VLInference::new")
          /\ ~Called("analyze_images")

C24_Witness ==
    /\ pc = "failed"
    /\ Has("check_system_requirements", "ok")
    /\ Has("check_model_status", "Downloading")
    /\ result.cause = "ModelNotFound"
    /\ Len(calls) = 3

\* C25: the settings that drive a run (mode, variant, fallback flag) are read
\* once, when analyze_style starts; an update_settings that interleaves with a
\* pending run changes neither the run's settings nor its backend selection,
\* and the fallback decision is taken on the settings read at the start.
C25_SettingsReadOnce ==
    [][ /\ (pc = "idle" /\ pc' # "idle") =>
              /\ settings' = load_settings(settingsFile)
              /\ use_api' = UseApi(settings', apiKeySet)
        /\ (pc # "idle" /\ pc' # "idle") =>
              /\ settings' = settings
              /\ use_api' = use_api
              /\ CallCount(calls', "load_settings") = 1
        /\ (pc = "remote" /\ pc' \notin {"remote", "done"}) =>
              (pc' = "sysreq" <=> settings.auto_fallback)
      ]_vars

C25_Witness ==
    /\ pc = "sysreq"
    /\ Has("claude::analyze_style", "err")
    /\ settings.auto_fallback
    /\ settings.analysis_mode = "Auto"
    /\ settingsFile.state = "ok"
    /\ ~settingsFile.value.auto_fallback
    /\ settingsFile.value.analysis_mode = "Offline"

\* C28: for every completed run fallback_used is true if and only if a remote
\* attempt was made and failed earlier in that run; a run that goes to the
\* local backend without a remote attempt completes with mode_used offline
\* and fallback_used false.
C28_FallbackIffRemoteFailed ==
    pc = "done" =>
       /\ result.kind = "ok"
       /\ result.fallback_used <=> Has("claude::analyze_style", "err")
       /\ ~Called("claude::analyze_style") =>
             (result.mode_used = "offline" /\ ~result.fallback_used)
       /\ result.fallback_used =>
             /\ result.mode_used = "offline"
             /\ CallAt("claude::analyze_style") < CallAt("analyze_images")

C28_Witness ==
    /\ pc = "done"
    /\ settings.analysis_mode = "CloudAPI"
    /\ ~Called("claude::analyze_style")
    /\ Has("analyze_images", "ok")
    /\ result.mode_used = "offline"
    /\ ~result.fallback_used

(***************************************************************************)
(* Claims about the store's analyzeStyle and loadProject (checked under    *)
(* SpecLoad)                                                               *)
(***************************************************************************)
\* the step moves invocation i of analyzeStyle to `threw`
AnalysisFails(i) ==
    /\ i <= Len(runs)
    /\ runs[i].op = "analyzeStyle"
    /\ Pending(runs[i])
    /\ runs'[i].at = "threw"

\* the step is one of invocation i, which does not assign the specification
\* in it (every step of an analyzeStyle invocation but the one that parses
\* the payload successfully)
AnalysisStepWithoutResult(i) ==
    /\ i <= Len(runs)
    /\ runs[i].op = "analyzeStyle"
    /\ runs'[i].at # runs[i].at
    /\ runs'[i].at # "complete"

\* C22: when an analyzeStyle invocation fails (the command rejects, or its
\* payload cannot be parsed), the failing step leaves the stored
\* specification and currentStep as they are, records the error and sets
\* isLoading to false; and no earlier step of that invocation (none reaches
\* the successful parse) assigns specification or currentStep.
C22_FailureKeepsSpecification ==
    [][ \A i \in 1..MaxRuns :
          /\ AnalysisFails(i) =>
                /\ specification' = specification
                /\ currentStep' = currentStep
                /\ ~error'.null
                /\ isLoading' = FALSE
          /\ AnalysisStepWithoutResult(i) =>
                /\ specification' = specification
                /\ currentStep' = currentStep
      ]_vars

\* an analysis has failed on an unparsable payload while a specification
\* loaded from a project file is stored
C22_Witness ==
    /\ \E i \in 1..Len(runs) :
          /\ runs[i].op = "analyzeStyle"
          /\ runs[i].at = "threw"
          /\ runs[i].result.kind = "ok"
    /\ specification.present
    /\ currentStep = "batches"
    /\ error = SyntaxErrorMessage
    /\ ~isLoading

\* C27: isLoading is true in every state in which at least one analyzeStyle
\* or loadProject invocation is pending.
C27_LoadingWhilePending ==
    (\E i \in 1..Len(runs) : Pending(runs[i])) => isLoading

(***************************************************************************)
(* Claims about the parser and the batch validator (checked under          *)
(* SpecValid)                                                              *)
(***************************************************************************)
HasError(kind) == \E k \in 1..Len(validation.errors) : validation.errors[k].kind = kind

Braces == {"{", "}"}

\* the position of the first brace character at or after i, 0 when there is none
NextBrace(s, i) ==
    LET ks == {k \in i..Len(s) : s[k] \in Braces}
    IN IF ks = {} THEN 0 ELSE CHOOSE k \in ks : \A j \in ks : k <= j

\* the non-nested groups of a template: a "{", a "}" after it and no brace
\* character in between; each as <<position of "{", position of "}">>
Groups(s) ==
    {<<i, k>> \in (1..Len(s)) \X (1..Len(s)) :
        s[i] = "{" /\ s[k] = "}" /\ i < k /\ NextBrace(s, i + 1) = k}

\* the number of options of a group that are non-empty after trimming
GroupSize(s, g) ==
    LET inner == Slice(s, g[1] + 1, g[2] - 1)
        parts == Split(inner)
    IN Cardinality({k \in 1..Len(parts) : Trim(parts[k]) # <<>>})

RECURSIVE ProductOver(_, _)
ProductOver(s, gs) ==
    IF gs = {} THEN 1
    ELSE LET g == CHOOSE x \in gs : TRUE
         IN GroupSize(s, g) * ProductOver(s, gs \ {g})

\* a group opens inside another group that is still open: a "{" whose nearest
\* brace character to the left is a "{"
Nested(s) ==
    \E i \in 1..Len(s) :
        /\ s[i] = "{"
        /\ NextBrace(s, i + 1) # 0
        /\ s[NextBrace(s, i + 1)] = "{"

\* the template carries a marker whose embedded code is `code`
HasMarkerFor(s, code) == \E i \in SrefMatches(s) : SrefMatchAt(s, i) = code

\* C7 (as claimed): if the expansion count is 40, the template carries a marker
\* whose code is the expected style code and the priority is high, medium or
\* low, then validateBatch returns no hard error.
C7_NoHardErrors ==
    ( /\ validation.calculatedCount = 40
      /\ HasMarkerFor(batch.prompt, expectedSrefCode)
      /\ batch.priority \in {"high", "medium", "low"} )
    => /\ validation.isValid
       /\ validation.errors = <<>>

\* C7 (amended): if the expansion count is 40, the template passes the syntax
\* check (hasValidSyntax), its first marker carries the expected style code and
\* the priority is high, medium or low, then validateBatch returns no hard error.
C7_NoHardErrorsWhenSyntaxValid ==
    ( /\ validation.calculatedCount = 40
      /\ validation.hasValidSyntax
      /\ extractSrefCode(batch.prompt).found
      /\ extractSrefCode(batch.prompt).code = expectedSrefCode
      /\ batch.priority \in {"high", "medium", "low"} )
    => /\ validation.isValid
       /\ validation.errors = <<>>

C7_Witness ==
    /\ validation.calculatedCount = 40
    /\ validation.hasValidSyntax
    /\ HasMarkerFor(batch.prompt, expectedSrefCode)
    /\ batch.priority = "low"
    /\ validation.isValid

\* C8 (as claimed): the expansion count is the product, over all non-nested
\* groups of the template, of the number of options that are non-empty after
\* trimming, and 1 when the template has no group.
C8_CountIsProductOfGroups ==
    validation.calculatedCount = ProductOver(batch.prompt, Groups(batch.prompt))

\* C9 (as claimed): a template whose numbers of "{" and "}" differ gets
\* hasValidSyntax = false and a hard syntax error.
C9_UnbalancedIsHardError ==
    CountChar(batch.prompt, "{") # CountChar(batch.prompt, "}")
    => /\ ~validation.hasValidSyntax
       /\ HasError("syntax")
       /\ ~validation.isValid

\* C10 (as claimed): a template with a group that has no non-empty option is a
\* syntax error; a template without any group is syntactically valid and has
\* expansion count 1; a template whose groups (balanced, not nested) all have
\* at least one non-empty option is not a syntax error.
C10_EmptyGroupIsSyntaxError ==
    LET s == batch.prompt
        gs == Groups(s)
    IN /\ (\E g \in gs : GroupSize(s, g) = 0) => ~validation.hasValidSyntax
       /\ (~Includes(s, "{") /\ ~Includes(s, "}"))
             => (validation.hasValidSyntax /\ validation.calculatedCount = 1)
       /\ ( /\ gs # {}
            /\ CountChar(s, "{") = CountChar(s, "}")
            /\ ~Nested(s)
            /\ \A g \in gs : GroupSize(s, g) >= 1 )
          => (validation.hasValidSyntax /\ ~HasError("syntax"))


C12_CountErrorIffNot40 ==
    /\ HasError("count") <=> validation.calculatedCount # 40
    /\ validation.calculatedCount = calculatePermutationCount(batch.prompt)
    /\ \A k \in 1..Len(validation.errors) :
          validation.errors[k].kind = "count"
             => validation.errors[k].count = validation.calculatedCount

C12_Witness ==
    /\ edits > 0
    /\ validation.calculatedCount = 40
    /\ ~HasError("count")

\* "--sref", then at least one whitespace character, then a digit, somewhere
\* in s
MarkerAnywhere(s) ==
    \E i \in 1..(Len(s) - 7) :
        /\ s[i] = "-" /\ s[i + 1] = "-" /\ s[i + 2] = "s"
        /\ s[i + 3] = "r" /\ s[i + 4] = "e" /\ s[i + 5] = "f"
        /\ \E d \in (i + 7)..Len(s) :
              /\ s[d] \in {"0", "1", "2", "3", "4", "5", "6", "7", "8", "9"}
              /\ \A k \in (i + 6)..(d - 1) : s[k] \in {" ", "\t", "\n"}

\* the marker is the end of the template: "--sref", whitespace, digits, and
\* nothing but whitespace after the digits
TrailingMarkerAt(s, i) ==
    /\ SrefMatchAt(s, i) # <<>>
    /\ \A k \in (RunEnd(s, RunEnd(s, i + 6, Whitespace) + 1, Digits) + 1)..Len(s) :
          s[k] \in Whitespace

HasTrailingMarker(s) == \E i \in 1..Len(s) : TrailingMarkerAt(s, i)

\* C13 (as claimed): validateBatch reports a hard error when the template has
\* no trailing marker embedding a style code, reports a hard error when the
\* marker's code differs from the expected style code it is given, and sets
\* hasSrefCode true exactly when such a marker is present.
C13_TrailingMarkerRequired ==
    LET s == batch.prompt
    IN /\ ~HasTrailingMarker(s) => (HasError("sref_missing") /\ ~validation.isValid)
       /\ ( /\ expectedSrefCode # <<>>
            /\ \E i \in 1..Len(s) :
                  TrailingMarkerAt(s, i) /\ SrefMatchAt(s, i) # expectedSrefCode )
             => (HasError("sref_mismatch") /\ ~validation.isValid)
       /\ validation.hasSrefCode <=> HasTrailingMarker(s)

\* C13 (amended): validateBatch reports a hard error when the template has no
\* marker embedding a style code anywhere in it, reports a hard error when an
\* expected style code is given (non-empty) and the code of the first marker
\* differs from it, and sets hasSrefCode true exactly when a marker is present
\* anywhere in the template.
C13_MarkerAnywhereRequired ==
    LET s == batch.prompt
    IN /\ ~MarkerAnywhere(s) => (HasError("sref_missing") /\ ~validation.isValid)
       /\ ( /\ MarkerAnywhere(s)
            /\ expectedSrefCode # <<>>
            /\ extractSrefCode(s).code # expectedSrefCode )
             => (HasError("sref_mismatch") /\ ~validation.isValid)
       /\ validation.hasSrefCode <=> MarkerAnywhere(s)

C13_Witness ==
    /\ MarkerAnywhere(batch.prompt)
    /\ ~HasTrailingMarker(batch.prompt)
    /\ validation.hasSrefCode
    /\ expectedSrefCode # <<>>
    /\ HasError("sref_mismatch")

Dense(bs) == \A i \in 1..Len(bs) : bs[i].batch_number = i

\* C14: for a specification with N batches and 0 <= k < N, removeBatch(k)
\* leaves exactly the other N-1 batches in their previous relative order, each
\* unchanged but for batch_number, which is its list position 1..N-1, and
\* isDirty is set.
C14_RemoveBatchRenumbers ==
    [][ lastOp'.op = "removeBatch" =>
          LET old == specification.permutation_batches
              new == specification'.permutation_batches
              k == lastOp'.index
          IN /\ 0 <= k /\ k < Len(old)
             /\ Len(new) = Len(old) - 1
             /\ \A i \in 1..Len(new) :
                   new[i] = [(IF i <= k THEN old[i] ELSE old[i + 1])
                                EXCEPT !.batch_number = i]
             /\ isDirty' ]_vars

C14_Witness ==
    /\ lastOp = [op |-> "removeBatch", index |-> 0]
    /\ Len(specification.permutation_batches) = 2
    /\ specification.permutation_batches[1].batch_name = <<"B">>
    /\ specification.permutation_batches[1].batch_number = 1
    /\ specification.permutation_batches[2].batch_name = <<"C">>
    /\ specification.permutation_batches[2].batch_number = 2
    /\ isDirty

\* C15 (as claimed): in every state of a store that holds a specification,
\* after any sequence of addBatch, duplicateBatch, removeBatch and updateBatch
\* the i-th batch of the list has batch_number i.
C15_AlwaysDense ==
    (specification.present /\ opCount > 0)
       => Dense(specification.permutation_batches)

\* C15 (amended): addBatch, duplicateBatch, removeBatch and updateBatch keep
\* the numbering: if the i-th batch has batch_number i for every i before the
\* operation, it has after it; and after removeBatch the i-th batch has
\* batch_number i whatever the numbers were before.
C15_DensePreserved ==
    [][ /\ Dense(specification.permutation_batches)
            => Dense(specification'.permutation_batches)
        /\ lastOp'.op = "removeBatch"
            => Dense(specification'.permutation_batches) ]_vars

C15_Witness ==
    /\ opCount >= 3
    /\ lastOp.op = "duplicateBatch"
    /\ Len(specification.permutation_batches) >= 3
    /\ Dense(specification.permutation_batches)
    /\ \E i \in 1..Len(specification.permutation_batches) :
          specification.permutation_batches[i].prompt = EditedPrompt

\* the batch addBatch has just pushed, and its validation against the
\* specification's own style code
NewBatch == specification.permutation_batches[Len(specification.permutation_batches)]

NewBatchValidation == validateBatch(NewBatch, specification.sref_code)

NewBatchNumbered ==
    /\ NewBatch.batch_number = Len(specification.permutation_batches)
    /\ NewBatch.priority = "medium"

NewBatchValid ==
    /\ NewBatchValidation.calculatedCount = 40
    /\ NewBatchValidation.errors = <<>>
    /\ NewBatchValidation.isValid

\* C29 (as claimed): a batch created by addBatch on a specification of N
\* batches gets batch_number N+1 and priority medium, and validates with
\* expansion count 40 and zero hard errors against the specification's own
\* style code, for every style code the specification can hold.
C29_NewBatchValid ==
    lastOp.op = "addBatch" => (NewBatchNumbered /\ NewBatchValid)

\* C29 (amended): a batch created by addBatch on a specification of N batches
\* gets batch_number N+1 and priority medium; if the specification's style
\* code is a non-empty string of digits, the batch validates with expansion
\* count 40 and zero hard errors against that code.
C29_NewBatchValidForDigitCodes ==
    lastOp.op = "addBatch" =>
       /\ NewBatchNumbered
       /\ ( /\ specification.sref_code # <<>>
            /\ \A k \in 1..Len(specification.sref_code) :
                  specification.sref_code[k]
                     \in {"0", "1", "2", "3", "4", "5", "6", "7", "8", "9"} )
          => NewBatchValid

C29_Witness ==
    /\ lastOp.op = "addBatch"
    /\ specification.sref_code = <<"2", "3">>
    /\ Len(specification.permutation_batches) = 4
    /\ NewBatch.batch_number = 4
    /\ NewBatchValidation.isValid

(***************************************************************************)
(* Claims about validateDatasetSpecification (checked under SpecDoc)       *)
(***************************************************************************)
Validated == docValidation # NotValidated

DocHasError(kind) ==
    \E k \in 1..Len(docValidation.errors) : docValidation.errors[k].kind = kind

DocHasWarning(kind) ==
    \E k \in 1..Len(docValidation.warnings) : docValidation.warnings[k].kind = kind

\* two batches of the list carry the same batch_number
SharedNumber(bs) ==
    \E i, j \in 1..Len(bs) : i # j /\ bs[i].batch_number = bs[j].batch_number

\* the sum of the declared percentages: e.g. 60 for 60 and for "60%"
RECURSIVE DeclaredPercent(_, _)
DeclaredPercent(distribution, k) ==
    IF k > Len(distribution) THEN 0
    ELSE (IF distribution[k].type = "number" THEN distribution[k].number
          ELSE parseFloat(ReplacePercent(distribution[k].chars)).value)
         + DeclaredPercent(distribution, k + 1)

\* every value of the distribution is a number or a string that holds one
AllPercentages(distribution) ==
    \A k \in 1..Len(distribution) :
        \/ distribution[k].type = "number"
        \/ ~parseFloat(ReplacePercent(distribution[k].chars)).nan

\* the sum of the image_count fields of the batches from position k on
RECURSIVE DeclaredImages(_, _)
DeclaredImages(bs, k) ==
    IF k > Len(bs) THEN 0 ELSE bs[k].image_count + DeclaredImages(bs, k + 1)

\* C16 (as claimed): validateDatasetSpecification reports a hard error, with
\* isValid = false, whenever the specification has fewer than 8 batches; with
\* 8 batches or more it reports no batch-count error.
C16_MinimumBatches ==
    Validated =>
       LET n == Len(specification.permutation_batches)
       IN /\ n < 8 => /\ docValidation.kind = "result"
                      /\ DocHasError("batch_count")
                      /\ ~docValidation.isValid
          /\ n >= 8 => ~DocHasError("batch_count")

\* C17 (as claimed): validateDatasetSpecification reports a hard error, with
\* isValid = false, exactly when two batches share the same batch_number.
C17_DuplicateNumbers ==
    Validated =>
       LET shared == SharedNumber(specification.permutation_batches)
       IN /\ shared => /\ docValidation.kind = "result"
                       /\ DocHasError("duplicate_numbers")
                       /\ ~docValidation.isValid
          /\ ~shared => ~DocHasError("duplicate_numbers")

\* C18 (as claimed): a distribution whose percentages sum to a value within
\* 95..105 (bounds included) gives no distribution warning; a sum outside that
\* range (e.g. 80) gives a warning and never a hard error, and isValid is what
\* the hard errors alone make it.
C18_DistributionTolerance ==
    (Validated /\ AllPercentages(specification.optimal_subject_distribution)) =>
       LET total == DeclaredPercent(specification.optimal_subject_distribution, 1)
       IN /\ (95 <= total /\ total <= 105) => ~DocHasWarning("distribution")
          /\ (total < 95 \/ total > 105) =>
                /\ docValidation.kind = "result"
                /\ DocHasWarning("distribution")
          /\ ~DocHasError("distribution")
          /\ docValidation.kind = "result" =>
                (docValidation.isValid <=> docValidation.errors = <<>>)

\* C19 (as claimed): the total-size check uses the sum of the declared
\* image_count fields, never the recomputed expansion counts; a total below 50
\* or above 200 gives a warning only, a total within 50..200 gives no such
\* warning.
C19_TotalSizeBand ==
    Validated =>
       LET total == DeclaredImages(specification.permutation_batches, 1)
       IN /\ total < 50 => (docValidation.kind = "result" /\ DocHasWarning("size_low"))
          /\ total > 200 => (docValidation.kind = "result" /\ DocHasWarning("size_high"))
          /\ total >= 50 => ~DocHasWarning("size_low")
          /\ total <= 200 => ~DocHasWarning("size_high")
          /\ ~DocHasError("size_low") /\ ~DocHasError("size_high")
          /\ \A k \in 1..Len(docValidation.warnings) :
                docValidation.warnings[k].kind \in {"size_low", "size_high"}
                   => docValidation.warnings[k].number = total

\* C20 (as claimed): for every well-typed specification, the empty batch
\* list, empty templates and every distribution map the schema allows
\* included, validateDatasetSpecification returns a result and does not raise.
C20_NeverRaises ==
    Validated => docValidation.kind = "result"

\* the place of a hard error in the order of the checks
ErrorRank(e) ==
    CASE e.kind = "batch_count" -> 1
      [] e.kind = "duplicate_numbers" -> 2
      [] e.kind = "batch" -> 3
      [] OTHER -> 0

\* the place of a warning in the order of the checks
WarningRank(w) ==
    CASE w.kind = "sref_format" -> 1
      [] w.kind = "batch" -> 2
      [] w.kind = "distribution" -> 3
      [] w.kind \in {"size_low", "size_high"} -> 4
      [] OTHER -> 0

Ranked(ms, Rank(_)) ==
    /\ \A k \in 1..Len(ms) : Rank(ms[k]) > 0
    /\ \A i, j \in 1..Len(ms) : i < j => Rank(ms[i]) <= Rank(ms[j])

\* the per-batch messages ms[i..] name batches at list positions from p on, in
\* list order; with `strict` no batch is named twice
RECURSIVE InListOrder(_, _, _, _, _)
InListOrder(ms, i, bs, p, strict) ==
    IF i > Len(ms) THEN TRUE
    ELSE IF ms[i].kind # "batch" THEN InListOrder(ms, i + 1, bs, p, strict)
    ELSE LET qs == {q \in p..Len(bs) : bs[q].batch_number = ms[i].number}
         IN /\ qs # {}
            /\ LET q == CHOOSE x \in qs : \A y \in qs : x <= y
               IN InListOrder(ms, i + 1, bs, IF strict THEN q + 1 ELSE q, strict)

\* C26: validateDatasetSpecification applies its checks in a fixed order: in
\* errors, the batch-count error precedes the duplicate-number error, which
\* precedes the per-batch errors in batch-list order; in warnings, the
\* style-code format warning comes first, then the per-batch warnings in
\* batch-list order, then the distribution warning, then the total-size
\* warning.
C26_FixedOrder ==
    Validated =>
       /\ Ranked(docValidation.errors, ErrorRank)
       /\ Ranked(docValidation.warnings, WarningRank)
       /\ InListOrder(docValidation.errors, 1, specification.permutation_batches, 1, TRUE)
       /\ InListOrder(docValidation.warnings, 1, specification.permutation_batches, 1, FALSE)

C26_Witness ==
    /\ docValidation.kind = "result"
    /\ Len(docValidation.errors) = 4
    /\ docValidation.errors[1].kind = "batch_count"
    /\ docValidation.errors[2].kind = "duplicate_numbers"
    /\ docValidation.errors[3].kind = "batch"
    /\ docValidation.errors[4].kind = "batch"
    /\ Len(docValidation.warnings) = 5
    /\ docValidation.warnings[1].kind = "sref_format"
    /\ docValidation.warnings[2].kind = "batch"
    /\ docValidation.warnings[3].kind = "batch"
    /\ docValidation.warnings[4].kind = "distribution"
    /\ docValidation.warnings[5].kind = "size_low"

\* the batches with every declared image_count replaced by 40
Declaring40(bs) == [i \in 1..Len(bs) |-> [bs[i] EXCEPT !.image_count = 40]]

\* C30: the result of validateBatch does not depend on the declared
\* image_count: a batch and the same batch declaring 40 get identical results,
\* so a batch declaring a count other than 40, or other than its expansion
\* count, gets no hard error for it from validateBatch or from
\* validateDatasetSpecification.
C30_ImageCountIgnored ==
    Validated =>
       LET bs == specification.permutation_batches
           same == validateDatasetSpecification(
                      [specification EXCEPT !.permutation_batches = Declaring40(bs)])
       IN /\ \A i \in 1..Len(bs) :
                validateBatch(bs[i], specification.sref_code)
                   = validateBatch(Declaring40(bs)[i], specification.sref_code)
          /\ docValidation.kind = same.kind
          /\ docValidation.isValid = same.isValid
          /\ docValidation.errors = same.errors

C30_Witness ==
    /\ docValidation.kind = "result"
    /\ docValidation.isValid
    /\ Len(specification.permutation_batches) = 8
    /\ \A i \in 1..8 : specification.permutation_batches[i].image_count = 5
    /\ validateBatch(specification.permutation_batches[1], specification.sref_code).calculatedCount = 40
    /\ DocHasWarning("size_low")

=============================================================================
